---------------------------- MODULE Spec2Model ----------------------------
(***************************************************************************)
(* Model of goplay-irc's bot package: the PRIVMSG dispatcher (onPrivmsg),  *)
(* the command registry built by init, the handlers EvalCmd, PlayRun,      *)
(* PlayCmd and HelpCmd, the execution client runCode and the snippet       *)
(* locator extractPlaySnippetID / downloadPlaySnippet.                     *)
(*                                                                         *)
(* A Go string is a sequence of one-character strings; the control         *)
(* characters 0x07 and 0x1b, which have no TLA+ escape, are the elements   *)
(* "BEL" and "ESC".  A nil error is the empty sequence Nil.                *)
(*                                                                         *)
(* Handlers registered with goroutine = true run as invocations that are   *)
(* interleaved with the dispatcher; each of their steps runs from one      *)
(* remote call (http.Get, Share, Compile) to the next.  A Go panic in a   *)
(* handler's goroutine ends the process: crashed becomes TRUE and nothing  *)
(* runs.  A panic inside the PRIVMSG callback itself is either recovered   *)
(* by the IRC library or ends the process; both outcomes are kept.         *)
(***************************************************************************)
EXTENDS Integers, Sequences, FiniteSets, TLC

VARIABLES
    nlines,     \* number of PRIVMSG events delivered to onPrivmsg so far
    lastMsg,    \* the last PRIVMSG delivered to onPrivmsg (NoMsg before the first)
    invs,       \* invocations, in dispatch order: one per cmd.callback call
    replies,    \* lines sent through b.irc.Privmsg / Privmsgf, in send order
    busy,       \* index of the invocation onPrivmsg is running inline, or 0
    crashed     \* TRUE once an unrecovered panic has ended the process

vars == <<nlines, lastMsg, invs, replies, busy, crashed>>

(***************************************************************************)
(* Bounds of the model.                                                    *)
(***************************************************************************)
MaxLines ==
    2

(***************************************************************************)
(* String literals of the source.                                          *)
(***************************************************************************)
Nil ==
    <<>>

\* Configuration and literals of the bot package.
CommandPrefix ==
    <<"~">>
CurrentNick ==
    <<"g","o","p","l","a","y">>
NameEval ==
    <<"e","v","a","l">>
NamePlayRun ==
    <<"p","l","a","y","r","u","n">>
NamePlay ==
    <<"p","l","a","y">>
NameHelp ==
    <<"h","e","l","p">>
HelpEval ==
    <<"E","v","a","l","u","a","t","e","s"," ","t","h","e"," ","g","i","v","e","n"," ","g","o",
       " ","s","t","r","i","n","g","."," ","I","m","p","o","r","t","s"," ","a","r","e"," ","a",
       "u","t","o","m","a","t","i","c","a","l","l","y"," ","r","e","s","o","l","v","e","d"," ",
       "(","s","t","d","l","i","b"," ","o","n","l","y",")">>
HelpPlayRun ==
    <<"R","u","n","s"," ","t","h","e"," ","g","i","v","e","n"," ","p","l","a","y"," ","l","i",
       "n","k",","," ","r","e","t","u","r","n","i","n","g"," ","e","r","r","o","r","s"," ","a",
       "n","d"," ","o","u","t","p","u","t"," ","(","i","f"," ","a","n","y",")">>
HelpPlay ==
    <<"L","i","s","t","s"," ","a","n","y"," ","e","r","r","o","r","s"," ","t","h","e"," ","g",
       "i","v","e","n"," ","p","l","a","y"," ","l","i","n","k"," ","m","a","y"," ","h","a","v",
       "e">>
HelpHelp ==
    <<"T","h","i","s"," ","o","u","t","p","u","t",".">>
FmtNickPrefix ==
    <<"(","%","s",")"," ","%","s">>
FmtAvailable ==
    <<"A","v","a","i","l","a","b","l","e"," ","C","o","m","m","a","n","d","s"," ","(","u","s",
       "e"," ","%","s","h","e","l","p"," ","$","c","m","d"," ","f","o","r"," ","m","o","r","e",
       " ","i","n","f","o",")",":"," ","%","s">>
FmtUnknownCommand ==
    <<"U","n","k","n","o","w","n"," ","c","o","m","m","a","n","d"," ","%","q">>
FmtHelpFor ==
    <<"H","e","l","p"," ","f","o","r"," ","%","q",":"," ","%","s">>
CommaSpace ==
    <<","," ">>
MsgEmptyCode ==
    <<"C","a","n","n","o","t"," ","e","v","a","l"," ","e","m","p","t","y"," ","c","o","d","e">>
FmtBuiltUp ==
    <<"\n","\t","p","a","c","k","a","g","e"," ","m","a","i","n","\n","\t","f","u","n","c"," ",
       "m","a","i","n","(",")"," ","{","\n","\t","\t","%","s","\n","\t","}","\n","\t">>
FmtErrorOccurred ==
    <<"E","r","r","o","r"," ","o","c","c","u","r","r","e","d",":"," ","%","s">>
MsgNoPrints ==
    <<"C","o","m","p","l","e","t","e",","," ","b","u","t"," ","n","o"," ","p","r","i","n","t",
       "s">>
FmtFirstLineOnly ==
    <<" ","(","F","i","r","s","t"," ","l","i","n","e"," ","o","n","l","y","."," ","%","d"," ",
       "e","v","e","n","t","s"," ","r","e","t","u","r","n","e","d",")">>
FmtEvalResult ==
    <<"%","s","%","s"," ",":"," ","%","s">>
MsgSuppressed ==
    <<"O","u","t","p","u","t"," ","s","u","p","p","r","e","s","s","e","d",","," ","n","o","n",
       "-","p","r","i","n","t","a","b","l","e"," ","c","h","a","r","a","c","t","e","r","s"," ",
       "d","e","t","e","c","t","e","d",".">>
FmtFormatErr ==
    <<"c","o","u","l","d"," ","n","o","t"," ","f","o","r","m","a","t"," ","/"," ","i","m","p",
       "o","r","t","s"," ","s","o","u","r","c","e",":"," ","%","w">>
MsgNoShareLink ==
    <<"U","n","a","b","l","e"," ","t","o"," ","c","r","e","a","t","e"," ","s","h","a","r","e",
       " ","l","i","n","k">>
FmtGoplayErr ==
    <<"e","r","r","o","r"," ","f","r","o","m"," ","g","o","p","l","a","y",":"," ","%","w">>
ErrInvalidSnippet ==
    <<"i","n","v","a","l","i","d"," ","s","n","i","p","p","e","t">>
GoSuffix ==
    <<".","g","o">>
FmtSnippetURL ==
    <<"%","s","/","p","/","%","s">>
PlayBaseURL ==
    <<"h","t","t","p","s",":","/","/","p","l","a","y",".","g","o","l","a","n","g",".","o","r",
       "g">>
ErrSnippetMissing ==
    <<"s","n","i","p","p","e","t"," ","d","o","e","s"," ","n","o","t"," ","e","x","i","s","t">>
ErrUnknown ==
    <<"u","n","k","n","o","w","n"," ","e","r","r","o","r">>
MsgEmptyLink ==
    <<"C","a","n","n","o","t"," ","p","a","r","s","e"," ","a","n"," ","e","m","p","t","y"," ",
       "l","i","n","k"," ","/"," ","U","R","L">>
FmtUnableCompile ==
    <<"U","n","a","b","l","e"," ","t","o"," ","s","t","a","r","t"," ","c","o","m","p","i","l",
       "e",":"," ","%","s">>
FmtCompileFailed ==
    <<"C","o","m","p","i","l","e"," ","f","a","i","l","e","d","!"," ","%","s">>
FmtComplete ==
    <<"C","o","m","p","l","e","t","e",":"," ","%","s">>
FmtUnableSnippet ==
    <<"U","n","a","b","l","e"," ","t","o"," ","g","e","t"," ","s","n","i","p","p","e","t",":",
       " ","%","s">>
FmtErrors ==
    <<"E","r","r","o","r","s",":"," ","%","s">>
MsgNoErrors ==
    <<"N","o"," ","e","r","r","o","r","s"," ","i","n"," ","f","i","l","e">>
SchemeHttp ==
    <<"h","t","t","p",":","/","/">>
SchemeHttps ==
    <<"h","t","t","p","s",":","/","/">>
HostPathRe ==
    <<"p","l","a","y",".","g","o","l","a","n","g",".","o","r","g","/","p","/">>

\* Sample values returned by imports.Process, Share, Compile and http.Get.
ErrSyntax ==
    <<"p","r","o","g",".","g","o",":","4",":","3",":"," ","e","x","p","e","c","t","e","d"," ",
       "o","p","e","r","a","n","d">>
ErrNetwork ==
    <<"d","i","a","l"," ","t","c","p",":"," ","i","/","o"," ","t","i","m","e","o","u","t">>
ErrRead ==
    <<"u","n","e","x","p","e","c","t","e","d"," ","E","O","F">>
ShareURL ==
    <<"h","t","t","p","s",":","/","/","p","l","a","y",".","g","o","l","a","n","g",".","o","r",
       "g","/","p","/","S","h","4","r","3","L","1","n","k","0">>
SnippetBody ==
    <<"p","a","c","k","a","g","e"," ","m","a","i","n","\n","f","u","n","c"," ","m","a","i","n",
       "(",")"," ","{","}","\n">>
DiagUndefined ==
    <<" "," ","p","r","o","g",".","g","o",":","3",":"," ","u","n","d","e","f","i","n","e","d",
       ":"," ","x"," "," ","\n">>
EventHi ==
    <<"h","i","\n">>
EventLine1 ==
    <<"l","i","n","e","1","\n","h","i","d","d","e","n">>
EventE2 ==
    <<"e","2">>
EventE3 ==
    <<"e","3">>

DiagTwoLines ==
    <<"p","r","o","g",".","g","o",":","3",":"," ","u","n","d","e","f","i","n","e","d",":"," ",
       "x","\n","p","r","o","g",".","g","o",":","4",":"," ","u","n","d","e","f","i","n","e","d",
       ":"," ","y","\n">>

EventBell ==
    <<"h","i","BEL"," ","t","h","e","r","e","\n">>

EventBellOnly ==
    <<"BEL">>

EventEscape ==
    <<"ESC","[","3","1","m","r","e","d">>

EventTab ==
    <<"a","\t","b","\n">>

EventPadded ==
    <<" "," ","h","i"," "," ","\n","r","e","s","t">>

EventCR ==
    <<"o","n","e","\r","\n","t","w","o">>

\* Targets, senders and texts of the inbound lines.
ChanGo ==
    <<"#","g","o">>
UserAl ==
    <<"a","l","!","a","@","h","1">>
UserBo ==
    <<"b","o","!","b","@","h","2">>
TxtEval ==
    <<"~","e","v","a","l"," ","f","m","t",".","P","r","i","n","t","l","n","(","1",")">>
TxtEvalBlank ==
    <<"~","e","v","a","l"," "," ","\t">>
TxtEvalNoArg ==
    <<"~","e","v","a","l">>
TxtPlayRun ==
    <<"~","p","l","a","y","r","u","n"," ","a","b","c","d","e","f","g","h">>
TxtPlayRunBad ==
    <<"~","p","l","a","y","r","u","n"," ","n","o","s","u","c","h">>
TxtPlayRunNoArg ==
    <<"~","p","l","a","y","r","u","n">>
TxtPlay ==
    <<"~","p","l","a","y"," ","h","t","t","p","s",":","/","/","p","l","a","y",".","g","o","l",
       "a","n","g",".","o","r","g","/","p","/","a","b","c","d","e","f","g","h",".","g","o">>
TxtPlayBad ==
    <<"~","p","l","a","y"," ","n","o","s","u","c","h">>
TxtHelp ==
    <<"~","h","e","l","p">>
TxtHelpEval ==
    <<"~","h","e","l","p"," ","e","v","a","l">>
TxtHelpNope ==
    <<"~","h","e","l","p"," ","n","o","p","e">>
TxtMentionHelp ==
    <<"g","o","p","l","a","y"," ","h","e","l","p">>
TxtMentionEval ==
    <<"g","o","p","l","a","y",":"," ","e","v","a","l"," ","x"," ",":","="," ","1">>
TxtMentionOnly ==
    <<"g","o","p","l","a","y">>
TxtChatter ==
    <<"h","e","l","l","o"," ","w","o","r","l","d">>
TxtOtherBot ==
    <<"!","e","v","a","l"," ","1">>
TxtUnknownCmd ==
    <<"~","n","o","p","e"," ","x">>

\* Pieces of the lines handed to the command parser: command names that are
\* not registered, argument texts, separators, and what follows the nick.
NameEvalCap ==
    <<"E","v","a","l">>

NameHelpUpper ==
    <<"H","E","L","P">>

NameNope ==
    <<"n","o","p","e">>

NameEvaluate ==
    <<"e","v","a","l","u","a","t","e">>

ArgSpaced ==
    <<"x"," ",":","="," ","1">>

ArgLeadSpace ==
    <<" ","x">>

ArgWord ==
    <<"a","b","c","d","e","f","g","h">>

ArgBlank ==
    <<" ","\t">>

ArgPaddedName ==
    <<" ","p","l","a","y"," ">>

SepSpace ==
    <<" ">>

SepTwoSpaces ==
    <<" "," ">>

SepTab ==
    <<"\t">>

TailColon ==
    <<":">>

TailLetter ==
    <<"s">>

TailComma ==
    <<",">>

\* Pieces of the references handed to the snippet locator.
RefShort ==
    <<"a","b","c","d","e","f","g">>
RefEight ==
    <<"a","b","c","d","e","f","g","h">>
RefNine ==
    <<"A","b","c","1","2","3","x","y","z">>
RefDashed ==
    <<"a","b","c","d","-","f","g","h">>
ExtPy ==
    <<".","p","y">>
ExtGoGo ==
    <<".","g","o",".","g","o">>
LeadFtpHost ==
    <<"f","t","p",":","/","/","p","l","a","y",".","g","o","l","a","n","g",".","o","r","g","/",
       "p","/">>
LeadOtherHost ==
    <<"h","t","t","p","s",":","/","/","e","v","i","l",".","e","x","a","m","p","l","e","/","p",
       "/">>
LeadWildHost ==
    <<"h","t","t","p","s",":","/","/","p","l","a","y","X","g","o","l","a","n","g",".","o","r",
       "g","/","p","/">>
LeadBang ==
    <<"!">>
TrailBang ==
    <<"!">>
TrailPath ==
    <<"/","x">>

(***************************************************************************)
(* Character classes: [a-zA-Z0-9], unicode.IsSpace, unicode.IsPrint.       *)
(***************************************************************************)
Lower ==
    {"a","b","c","d","e","f","g","h","i","j","k","l","m",
     "n","o","p","q","r","s","t","u","v","w","x","y","z"}

Upper ==
    {"A","B","C","D","E","F","G","H","I","J","K","L","M",
     "N","O","P","Q","R","S","T","U","V","W","X","Y","Z"}

Digit ==
    {"0","1","2","3","4","5","6","7","8","9"}

IsAlnum(c) ==
    c \in Lower \cup Upper \cup Digit

IsSpace(c) ==
    c \in {" ", "\t", "\n", "\r"}

IsPrint(c) ==
    c \notin {"\t", "\n", "\r", "BEL", "ESC"}

(***************************************************************************)
(* Package strings.                                                        *)
(***************************************************************************)
Drop(s, n) ==
    SubSeq(s, n + 1, Len(s))

HasPrefix(s, p) ==
    /\ Len(s) >= Len(p)
    /\ SubSeq(s, 1, Len(p)) = p

HasSuffix(s, p) ==
    /\ Len(s) >= Len(p)
    /\ SubSeq(s, Len(s) - Len(p) + 1, Len(s)) = p

RECURSIVE TrimLeft(_)
TrimLeft(s) ==
    IF s # <<>> /\ IsSpace(Head(s)) THEN TrimLeft(Tail(s)) ELSE s

RECURSIVE TrimRight(_)
TrimRight(s) ==
    IF s # <<>> /\ IsSpace(s[Len(s)]) THEN TrimRight(SubSeq(s, 1, Len(s) - 1)) ELSE s

TrimSpace(s) ==
    TrimRight(TrimLeft(s))

\* Index of the first occurrence of the character c in s, 0 if there is none.
RECURSIVE IndexFrom(_, _, _)
IndexFrom(s, c, i) ==
    IF i > Len(s) THEN 0
    ELSE IF s[i] = c THEN i
    ELSE IndexFrom(s, c, i + 1)

Index(s, c) ==
    IndexFrom(s, c, 1)

\* strings.SplitN(s, sep, n) for a one-character separator and n > 0: at most
\* n pieces, the last one the unsplit remainder.
RECURSIVE SplitN(_, _, _)
SplitN(s, sep, n) ==
    LET i == Index(s, sep)
    IN  IF n <= 1 \/ i = 0 THEN <<s>>
        ELSE <<SubSeq(s, 1, i - 1)>> \o SplitN(Drop(s, i), sep, n - 1)

RECURSIVE Join(_, _)
Join(parts, sep) ==
    IF parts = <<>> THEN <<>>
    ELSE IF Len(parts) = 1 THEN parts[1]
    ELSE parts[1] \o sep \o Join(Tail(parts), sep)

RECURSIVE ReplaceAllChar(_, _)
ReplaceAllChar(s, c) ==
    IF s = <<>> THEN <<>>
    ELSE IF Head(s) = c THEN ReplaceAllChar(Tail(s), c)
    ELSE <<Head(s)>> \o ReplaceAllChar(Tail(s), c)

(***************************************************************************)
(* Package fmt and strconv, for the verbs the source uses.                 *)
(***************************************************************************)
DigitChar(d) ==
    <<"0","1","2","3","4","5","6","7","8","9">>[d + 1]

RECURSIVE Itoa(_)
Itoa(n) ==
    IF n < 10 THEN <<DigitChar(n)>> ELSE Itoa(n \div 10) \o <<DigitChar(n % 10)>>

\* strconv.Quote on the characters of the model's alphabet.
RECURSIVE QuoteBody(_)
QuoteBody(s) ==
    IF s = <<>> THEN <<>>
    ELSE LET c == Head(s)
             e == CASE c = "\"" -> <<"\\", "\"">>
                    [] c = "\\" -> <<"\\", "\\">>
                    [] c = "\n" -> <<"\\", "n">>
                    [] c = "\t" -> <<"\\", "t">>
                    [] c = "\r" -> <<"\\", "r">>
                    [] c = "BEL" -> <<"\\", "a">>
                    [] c = "ESC" -> <<"\\", "x", "1", "b">>
                    [] OTHER -> <<c>>
         IN  e \o QuoteBody(Tail(s))

Quote(s) ==
    <<"\"">> \o QuoteBody(s) \o <<"\"">>

\* fmt.Sprintf(f, a...) for the verbs %s, %d, %w (operand printed as is) and
\* %q (operand quoted); a is the sequence of operands, already strings.
\* Index of the first verb of f at or after position i, 0 if there is none.
RECURSIVE VerbFrom(_, _)
VerbFrom(f, i) ==
    IF i >= Len(f) THEN 0
    ELSE IF f[i] = "%" /\ f[i + 1] \in {"s", "d", "w", "q"} THEN i
    ELSE VerbFrom(f, i + 1)

RECURSIVE Sprintf(_, _)
Sprintf(f, a) ==
    LET i == VerbFrom(f, 1)
    IN  IF i = 0 \/ a = <<>> THEN f
        ELSE SubSeq(f, 1, i - 1)
                \o (IF f[i + 1] = "q" THEN Quote(Head(a)) ELSE Head(a))
                \o Sprintf(Drop(f, i + 1), Tail(a))

(***************************************************************************)
(* Snippet locator: the two regular expressions, extractPlaySnippetID and  *)
(* the request path built by downloadPlaySnippet.                          *)
(***************************************************************************)
MinSnippetLen ==
    8

\* s, as a whole, is [a-zA-Z0-9]{8,}(?:\.go)?
IsSnippetID(s) ==
    LET body == IF HasSuffix(s, GoSuffix) THEN SubSeq(s, 1, Len(s) - Len(GoSuffix)) ELSE s
    IN  /\ Len(body) >= MinSnippetLen
        /\ \A i \in 1..Len(body) : IsAlnum(body[i])

\* snippetValidRe.MatchString(s): the expression [a-zA-Z0-9]{8,}(?:\.go)? has
\* no anchors, so it matches when some substring of s does.
snippetValidRe(s) ==
    \E i \in 1..Len(s) :
        /\ i + MinSnippetLen - 1 <= Len(s)
        /\ \A j \in i..(i + MinSnippetLen - 1) : IsAlnum(s[j])

snippetIsValid(snippet) ==
    snippetValidRe(snippet)

\* t starts with a match of play.golang.org/p/, where an unescaped dot of the
\* expression matches any character but a line break.
HostPathMatches(t) ==
    /\ Len(t) >= Len(HostPathRe)
    /\ \A i \in 1..Len(HostPathRe) :
          IF HostPathRe[i] = "." THEN t[i] # "\n" ELSE t[i] = HostPathRe[i]

\* The ways the optional group (?:https?://)? can match at the start of s:
\* what is left of s after it.
AfterScheme(s) ==
    {s} \cup {Drop(s, Len(p)) : p \in {q \in {SchemeHttp, SchemeHttps} : HasPrefix(s, q)}}

\* goplaygroundURIValidRe.FindStringSubmatch(source): the set of values of
\* capture group 1 over the matches of
\* ^(?:https?://)?play.golang.org/p/([a-zA-Z0-9]{8,}(?:\.go)?)$ (empty or one value).
goplaygroundURIValidRe(source) ==
    {Drop(t, Len(HostPathRe)) :
        t \in {u \in AfterScheme(source) :
                  HostPathMatches(u) /\ IsSnippetID(Drop(u, Len(HostPathRe)))}}

\* extractPlaySnippetID: [id, err].
extractPlaySnippetID(source) ==
    LET matches == goplaygroundURIValidRe(source)
    IN  IF matches # {} THEN [id |-> CHOOSE m \in matches : TRUE, err |-> Nil]
        ELSE IF snippetIsValid(source) THEN [id |-> source, err |-> Nil]
        ELSE [id |-> <<>>, err |-> ErrInvalidSnippet]

\* Mutant of SnippetURL: the suffix is appended always.
SnippetURLAlwaysSuffixed(id) ==
    Sprintf(FmtSnippetURL, <<PlayBaseURL, id \o GoSuffix>>)

\* downloadPlaySnippet, lines 313-316: the URL handed to http.Get for id.
SnippetURL(id) ==
    LET withGo == IF ~HasSuffix(id, GoSuffix) THEN id \o GoSuffix ELSE id
    IN  Sprintf(FmtSnippetURL, <<PlayBaseURL, withGo>>)

(***************************************************************************)
(* Command registry: Bot.commands as left by init.                         *)
(***************************************************************************)
createCommand(reg, name, goroutine, callback, help) ==
    [n \in DOMAIN reg \cup {name} |->
        IF n = name
        THEN [name |-> name, help |-> help, callback |-> callback, goroutine |-> goroutine]
        ELSE reg[n]]

\* Mutant of commands: play is registered to run inline.
commandsPlayInline ==
    LET c0 == [n \in {} |-> {}]
        c1 == createCommand(c0, NameEval, TRUE, "EvalCmd", HelpEval)
        c2 == createCommand(c1, NamePlayRun, TRUE, "PlayRun", HelpPlayRun)
        c3 == createCommand(c2, NamePlay, FALSE, "PlayCmd", HelpPlay)
    IN  createCommand(c3, NameHelp, FALSE, "HelpCmd", HelpHelp)

\* Mutant of commands: eval is registered to run inline.
commandsEvalInline ==
    LET c0 == [n \in {} |-> {}]
        c1 == createCommand(c0, NameEval, FALSE, "EvalCmd", HelpEval)
        c2 == createCommand(c1, NamePlayRun, TRUE, "PlayRun", HelpPlayRun)
        c3 == createCommand(c2, NamePlay, TRUE, "PlayCmd", HelpPlay)
    IN  createCommand(c3, NameHelp, FALSE, "HelpCmd", HelpHelp)

commands ==
    LET c0 == [n \in {} |-> {}]
        c1 == createCommand(c0, NameEval, TRUE, "EvalCmd", HelpEval)
        c2 == createCommand(c1, NamePlayRun, TRUE, "PlayRun", HelpPlayRun)
        c3 == createCommand(c2, NamePlay, TRUE, "PlayCmd", HelpPlay)
    IN  createCommand(c3, NameHelp, FALSE, "HelpCmd", HelpHelp)

(***************************************************************************)
(* Inbound PRIVMSG events: target is msg.Params[0], prefix is msg.Prefix   *)
(* and text is msg.Params[1].                                              *)
(***************************************************************************)
Msg(target, prefix, text) ==
    [target |-> target, prefix |-> prefix, text |-> text]

NoMsg ==
    Msg(<<>>, <<>>, <<>>)

\* ircevent.SplitNUH: the nick of nick!user@host, empty if source has not that form.
SplitNUH(source) ==
    LET i == Index(source, "!")
        j == Index(source, "@")
    IN  IF i > 0 /\ j > 0 /\ i < j THEN SubSeq(source, 1, i - 1) ELSE <<>>

\* onPrivmsg, lines 114-118.
ReplyTarget(msg) ==
    IF msg.target = CurrentNick THEN SplitNUH(msg.prefix) ELSE msg.target

\* Mutant of Addressed: the test of line 121 is missing.
AddressedAlways(msgContent) ==
    TRUE

\* onPrivmsg, line 121: the line is for the bot.
Addressed(msgContent) ==
    HasPrefix(msgContent, CommandPrefix) \/ HasPrefix(msgContent, CurrentNick)

\* Mutant of ParseCommand: the line is split at every space, so that only the
\* first word after the command name is kept as its argument.
ParseCommandFirstWord(msgContent) ==
    LET split == SplitN(msgContent, " ", Len(msgContent) + 1)
    IN  IF HasPrefix(msgContent, CurrentNick)
        THEN IF Len(split) < 2
             THEN [panic |-> TRUE, command |-> <<>>, rest |-> <<>>]
             ELSE [panic |-> FALSE, command |-> split[2],
                   rest |-> IF Len(split) > 2 THEN split[3] ELSE <<>>]
        ELSE [panic |-> FALSE, command |-> Drop(split[1], Len(CommandPrefix)),
              rest |-> IF Len(split) > 1 THEN split[2] ELSE <<>>]

\* onPrivmsg, lines 128-142: command and rest of an addressed line; panic when
\* split[1] is read from a one-element split.
ParseCommand(msgContent) ==
    IF HasPrefix(msgContent, CurrentNick)
    THEN LET split == SplitN(msgContent, " ", 3)
         IN  IF Len(split) < 2
             THEN [panic |-> TRUE, command |-> <<>>, rest |-> <<>>]
             ELSE [panic |-> FALSE, command |-> split[2],
                   rest |-> IF Len(split) > 2 THEN split[3] ELSE <<>>]
    ELSE LET split == SplitN(msgContent, " ", 2)
         IN  [panic |-> FALSE, command |-> Drop(split[1], Len(CommandPrefix)),
              rest |-> IF Len(split) > 1 THEN split[2] ELSE <<>>]

\* replyFunc, lines 154-159: the text handed to b.irc.Privmsg for reply(s, a...).
replyFunc(sourceNick, s, a) ==
    IF Len(a) = 0 THEN s
    ELSE Sprintf(Sprintf(FmtNickPrefix, <<sourceNick, s>>), a)

(***************************************************************************)
(* Results of the external calls.  The model draws each from a small set.  *)
(***************************************************************************)
\* codeBytes: the text and whether imports.Process has rewritten it.
Code(text, processed) ==
    [text |-> text, processed |-> processed]

NoCode ==
    Code(<<>>, FALSE)

\* imports.Process(codeBytes): [code, err], the rewritten source when the
\* source is accepted (ok) and a syntax error otherwise.
ImportsProcess(code, ok) ==
    IF ok THEN [code |-> Code(code.text, TRUE), err |-> Nil]
    ELSE [code |-> NoCode, err |-> ErrSyntax]

\* goplay.DefaultClient.Share: [link, err].
ShareResults ==
    {[link |-> ShareURL, err |-> Nil], [link |-> <<>>, err |-> ErrNetwork]}

\* goplay.DefaultClient.Compile: [res, err]; res is NoResponse (nil) or a
\* goplay.Response with its Errors and the Message of each of its Events.
Response(errors, events) ==
    [isNil |-> FALSE, Errors |-> errors, Events |-> events]

NoResponse ==
    [isNil |-> TRUE, Errors |-> <<>>, Events |-> <<>>]

CompileResults ==
    {[res |-> NoResponse, err |-> ErrNetwork],
     [res |-> Response(DiagUndefined, <<>>), err |-> Nil],
     [res |-> Response(<<>>, <<>>), err |-> Nil],
     [res |-> Response(<<>>, <<EventHi>>), err |-> Nil],
     [res |-> Response(<<>>, <<EventLine1, EventE2, EventE3>>), err |-> Nil]}

\* http.Get followed by ioutil.ReadAll: [getErr, status, body, readErr].
StatusOK ==
    200

StatusNotFound ==
    404

GetResults ==
    {[getErr |-> ErrNetwork, status |-> 0, body |-> <<>>, readErr |-> Nil],
     [getErr |-> Nil, status |-> StatusNotFound, body |-> <<>>, readErr |-> Nil],
     [getErr |-> Nil, status |-> 500, body |-> <<>>, readErr |-> Nil],
     [getErr |-> Nil, status |-> StatusOK, body |-> <<>>, readErr |-> ErrRead],
     [getErr |-> Nil, status |-> StatusOK, body |-> SnippetBody, readErr |-> Nil]}

(***************************************************************************)
(* Inbound lines of the model.                                             *)
(***************************************************************************)
Lines ==
    {Msg(ChanGo, UserAl, TxtEval),
     Msg(ChanGo, UserBo, TxtEvalBlank),
     Msg(ChanGo, UserAl, TxtEvalNoArg),
     Msg(ChanGo, UserBo, TxtPlayRun),
     Msg(ChanGo, UserAl, TxtPlayRunBad),
     Msg(ChanGo, UserAl, TxtPlayRunNoArg),
     Msg(CurrentNick, UserBo, TxtPlay),
     Msg(ChanGo, UserBo, TxtPlayBad),
     Msg(ChanGo, UserAl, TxtHelp),
     Msg(ChanGo, UserAl, TxtHelpEval),
     Msg(ChanGo, UserBo, TxtHelpNope),
     Msg(CurrentNick, UserAl, TxtMentionHelp),
     Msg(ChanGo, UserAl, TxtMentionEval),
     Msg(ChanGo, UserBo, TxtMentionOnly),
     Msg(ChanGo, UserAl, TxtChatter),
     Msg(ChanGo, UserBo, TxtOtherBot),
     Msg(ChanGo, UserBo, TxtUnknownCmd)}

(***************************************************************************)
(* Invocations and the bookkeeping shared by the handler steps.            *)
(***************************************************************************)
\* calls are the calls the callback has made so far to imports.Process,
\* Share, Compile and http.Get.
\* pc: "start" (callback not yet run), "get" (inside http.Get), "share"
\* (inside Share), "compile" (inside Compile), "done" (callback returned),
\* "panicked" (callback panicked), "killed" (process ended by another panic).
\* msg is the message the invocation was started for, res the response that
\* runCode returned to the handler.
Invocation(cmd, rest, msg) ==
    [callback |-> cmd.callback, args |-> rest,
     replyTarget |-> ReplyTarget(msg), sourceNick |-> SplitNUH(msg.prefix),
     inline |-> ~cmd.goroutine, pc |-> "start", code |-> NoCode, share |-> <<>>,
     calls |-> <<>>, msg |-> msg, res |-> NoResponse]

Running(pc) ==
    pc \in {"start", "get", "share", "compile"}

InRemoteCall(pc) ==
    pc \in {"get", "share", "compile"}

\* The process ends: every goroutine still running is gone.
Kill(is) ==
    [k \in DOMAIN is |-> IF Running(is[k].pc) THEN [is[k] EXCEPT !.pc = "killed"] ELSE is[k]]

\* A call of fn: url for http.Get, code for the others; ret is "pending" until
\* the call returns, then "ok" or the kind of its failure.
Call(fn, url, code, ret) ==
    [fn |-> fn, url |-> url, code |-> code, ret |-> ret]

\* The last call of cs, which is pending, returns with ret.
Returned(cs, ret) ==
    [cs EXCEPT ![Len(cs)].ret = ret]

Failed(err) ==
    IF err = Nil THEN "ok" ELSE "err"

\* Mutant of Sent: the target is the one of the line read last, as when the
\* reply closures share one target variable.
SentToLatest(i, out) ==
    [k \in 1..Len(out) |->
        [inv |-> i, target |-> invs[Len(invs)].replyTarget, text |-> out[k]]]

\* The lines sent for invocation i when its callback calls reply with the
\* rendered texts out, in order.
Sent(i, out) ==
    [k \in 1..Len(out) |-> [inv |-> i, target |-> invs[i].replyTarget, text |-> out[k]]]

\* Invocation i moves into a remote call: pc becomes next, with the new fields.
Suspend(i, next, code, share, cs) ==
    /\ invs' = [invs EXCEPT ![i].pc = next, ![i].code = code, ![i].share = share,
                            ![i].calls = cs]
    /\ UNCHANGED <<nlines, lastMsg, replies, busy, crashed>>

\* The callback of invocation i ends after replying with out: by returning, or
\* by a panic, which ends the process.
FinishWith(i, out, panic, cs, res) ==
    /\ replies' = replies \o Sent(i, out)
    /\ IF panic
       THEN /\ invs' = Kill([invs EXCEPT ![i].pc = "panicked", ![i].calls = cs,
                                         ![i].res = res])
            /\ crashed' = TRUE
            /\ busy' = busy
       ELSE /\ invs' = [invs EXCEPT ![i].pc = "done", ![i].calls = cs,
                                    ![i].res = res]
            /\ crashed' = crashed
            /\ busy' = IF busy = i THEN 0 ELSE busy
    /\ UNCHANGED <<nlines, lastMsg>>

\* The same, for a callback that ends without a response of runCode.
Finish(i, out, panic, cs) ==
    FinishWith(i, out, panic, cs, invs[i].res)

(***************************************************************************)
(* runCode, in the pieces between its external calls.                      *)
(***************************************************************************)
\* Mutant of runCodeProcess: the error of imports.Process is dropped.
runCodeProcessErrorDropped(code, doImports, doFormat, processed) ==
    IF doImports \/ doFormat
    THEN [code |-> processed.code, err |-> Nil,
          calls |-> <<Call("imports.Process", <<>>, code, Failed(processed.err))>>]
    ELSE [code |-> code, err |-> Nil, calls |-> <<>>]

\* Lines 258-273: [code, err, calls] after the imports.Process step.
runCodeProcess(code, doImports, doFormat, processed) ==
    IF doImports \/ doFormat
    THEN [code |-> processed.code,
          err |-> IF processed.err # Nil
                  THEN Sprintf(FmtFormatErr, <<processed.err>>) ELSE Nil,
          calls |-> <<Call("imports.Process", <<>>, code, Failed(processed.err))>>]
    ELSE [code |-> code, err |-> Nil, calls |-> <<>>]

\* Mutant of runCodeShare: no placeholder when Share failed.
runCodeShareNoPlaceholder(shared) ==
    shared.link

\* Lines 275-284: the share value after Share returned shared.
runCodeShare(shared) ==
    IF shared.err = Nil THEN shared.link ELSE MsgNoShareLink

\* Lines 286-291: what runCode returns after Compile returned compiled.
runCodeCompile(compiled, share) ==
    IF compiled.err # Nil
    THEN [res |-> NoResponse, share |-> <<>>,
          err |-> Sprintf(FmtGoplayErr, <<compiled.err>>)]
    ELSE [res |-> compiled.res, share |-> share, err |-> Nil]

\* ExtractFirstLine, lines 230-246.
ExtractFirstLine(s) ==
    LET trimmed == TrimSpace(SplitN(s, "\n", 2)[1])
        hasNonPrintables == \E k \in 1..Len(trimmed) : ~IsPrint(trimmed[k])
    IN  IF hasNonPrintables THEN MsgSuppressed
        ELSE ReplaceAllChar(trimmed, "BEL")

(***************************************************************************)
(* The handlers' code after runCode has returned r = [res, share, err]:    *)
(* [out, panic], the reply texts in order and whether the handler panics.  *)
(***************************************************************************)
\* Mutant of EvalCmdResult: the note on the number of events is also made for
\* a single event.
EvalCmdResultNoteAlways(nick, r) ==
    LET first == IF r.err # Nil
                 THEN <<replyFunc(nick, Sprintf(FmtErrorOccurred, <<r.err>>), <<>>)>>
                 ELSE <<>>
        n == Len(r.res.Events)
        extraInfo == IF n > 0 THEN Sprintf(FmtFirstLineOnly, <<Itoa(n)>>) ELSE <<>>
    IN  IF r.res.isNil
        THEN [out |-> first, panic |-> TRUE]
        ELSE IF Len(r.res.Errors) # 0
        THEN [out |-> first \o <<replyFunc(nick, TrimSpace(r.res.Errors), <<>>)>>,
              panic |-> FALSE]
        ELSE IF n = 0
        THEN [out |-> first \o <<replyFunc(nick, MsgNoPrints, <<>>)>>, panic |-> FALSE]
        ELSE [out |-> first \o <<replyFunc(nick, FmtEvalResult,
                        <<r.share, extraInfo, ExtractFirstLine(r.res.Events[1])>>)>>,
              panic |-> FALSE]

\* EvalCmd, lines 204-227.
EvalCmdResult(nick, r) ==
    LET first == IF r.err # Nil
                 THEN <<replyFunc(nick, Sprintf(FmtErrorOccurred, <<r.err>>), <<>>)>>
                 ELSE <<>>
        n == Len(r.res.Events)
        extraInfo == IF n > 1 THEN Sprintf(FmtFirstLineOnly, <<Itoa(n)>>) ELSE <<>>
    IN  IF r.res.isNil
        THEN [out |-> first, panic |-> TRUE]
        ELSE IF Len(r.res.Errors) # 0
        THEN [out |-> first \o <<replyFunc(nick, TrimSpace(r.res.Errors), <<>>)>>,
              panic |-> FALSE]
        ELSE IF n = 0
        THEN [out |-> first \o <<replyFunc(nick, MsgNoPrints, <<>>)>>, panic |-> FALSE]
        ELSE [out |-> first \o <<replyFunc(nick, FmtEvalResult,
                        <<r.share, extraInfo, ExtractFirstLine(r.res.Events[1])>>)>>,
              panic |-> FALSE]

\* PlayRun, lines 353-372.
PlayRunResult(nick, r) ==
    IF r.err # Nil
    THEN [out |-> <<replyFunc(nick, FmtUnableCompile, <<r.err>>)>>, panic |-> FALSE]
    ELSE IF Len(r.res.Errors) # 0
    THEN [out |-> <<replyFunc(nick,
                      Sprintf(FmtCompileFailed, <<TrimSpace(r.res.Errors)>>), <<>>)>>,
          panic |-> FALSE]
    ELSE IF Len(r.res.Events) = 0
    THEN [out |-> <<replyFunc(nick, MsgNoPrints, <<>>)>>, panic |-> FALSE]
    ELSE [out |-> <<replyFunc(nick, FmtComplete, <<ExtractFirstLine(r.res.Events[1])>>)>>,
          panic |-> FALSE]

\* PlayCmd, lines 389-403.
PlayCmdResult(nick, r) ==
    IF r.err # Nil
    THEN [out |-> <<replyFunc(nick, FmtUnableCompile, <<r.err>>)>>, panic |-> FALSE]
    ELSE IF Len(r.res.Errors) # 0
    THEN [out |-> <<replyFunc(nick,
                      Sprintf(FmtErrors, <<TrimSpace(r.res.Errors)>>), <<>>)>>,
          panic |-> FALSE]
    ELSE [out |-> <<replyFunc(nick, MsgNoErrors, <<>>)>>, panic |-> FALSE]

\* PlayRun, lines 347-351, and PlayCmd, lines 382-387: the replies made when
\* downloadPlaySnippet returned the error err.
PlayRunDownloadFailed(nick, err) ==
    <<>>

PlayCmdDownloadFailed(nick, err) ==
    <<replyFunc(nick, FmtUnableSnippet, <<err>>)>>

DownloadFailed(inv, err) ==
    IF inv.callback = "PlayRun" THEN PlayRunDownloadFailed(inv.sourceNick, err)
    ELSE PlayCmdDownloadFailed(inv.sourceNick, err)

\* downloadPlaySnippet, lines 316-337: [code, err] once http.Get returned got,
\* and the kind of the outcome.
downloadResult(got) ==
    IF got.getErr # Nil THEN [code |-> <<>>, err |-> got.getErr, kind |-> "network"]
    ELSE IF got.status = StatusNotFound
    THEN [code |-> <<>>, err |-> ErrSnippetMissing, kind |-> "notfound"]
    ELSE IF got.status # StatusOK THEN [code |-> <<>>, err |-> ErrUnknown, kind |-> "status"]
    ELSE IF got.readErr # Nil THEN [code |-> <<>>, err |-> got.readErr, kind |-> "read"]
    ELSE [code |-> got.body, err |-> Nil, kind |-> "ok"]

(***************************************************************************)
(* Actions.                                                                *)
(***************************************************************************)
Init ==
    /\ nlines = 0
    /\ lastMsg = NoMsg
    /\ invs = <<>>
    /\ replies = <<>>
    /\ busy = 0
    /\ crashed = FALSE

\* The lookup of the parsed command name in the registry.
NoCommand ==
    [name |-> <<>>, help |-> <<>>, callback |-> "", goroutine |-> FALSE]

\* Mutant of lookup: the name is matched without regard to letter case.
lookupFolded(command) ==
    LET upper == <<"A","B","C","D","E","F","G","H","I","J","K","L","M",
                   "N","O","P","Q","R","S","T","U","V","W","X","Y","Z">>
        lower == <<"a","b","c","d","e","f","g","h","i","j","k","l","m",
                   "n","o","p","q","r","s","t","u","v","w","x","y","z">>
        folded == [k \in 1..Len(command) |->
                      IF command[k] \in Upper
                      THEN lower[CHOOSE j \in 1..26 : upper[j] = command[k]]
                      ELSE command[k]]
    IN  IF folded \in DOMAIN commands
        THEN [cmd |-> commands[folded], cmdExists |-> TRUE]
        ELSE [cmd |-> NoCommand, cmdExists |-> FALSE]

lookup(command) ==
    IF command \in DOMAIN commands
    THEN [cmd |-> commands[command], cmdExists |-> TRUE]
    ELSE [cmd |-> NoCommand, cmdExists |-> FALSE]

\* The dispatcher reads its next PRIVMSG when it is not inside an inline callback.
\* A panic of the callback is either recovered by the read loop of the IRC
\* library, which then reads on, or ends the process: which of the two depends
\* on the library's Connection.AllowPanic and its version, so both are kept.
onPrivmsg(msg) ==
    /\ ~crashed
    /\ busy = 0
    /\ nlines < MaxLines
    /\ nlines' = nlines + 1
    /\ lastMsg' = msg
    /\ IF ~Addressed(msg.text)
       THEN UNCHANGED <<invs, replies, busy, crashed>>
       ELSE LET parsed == ParseCommand(msg.text)
            IN  IF parsed.panic
                THEN \/ UNCHANGED <<invs, replies, busy, crashed>>
                     \/ /\ crashed' = TRUE
                        /\ invs' = Kill(invs)
                        /\ UNCHANGED <<replies, busy>>
                ELSE IF ~lookup(parsed.command).cmdExists
                THEN UNCHANGED <<invs, replies, busy, crashed>>
                ELSE LET cmd == lookup(parsed.command).cmd
                     IN  /\ invs' = Append(invs, Invocation(cmd, parsed.rest, msg))
                         /\ busy' = IF cmd.goroutine THEN 0 ELSE Len(invs) + 1
                         /\ UNCHANGED <<replies, crashed>>

\* Mutant of EvalCmdEmpty: the argument is not trimmed.
EvalCmdEmptyUntrimmed(args) ==
    args = <<>>

\* EvalCmd, line 193.
EvalCmdEmpty(args) ==
    TrimSpace(args) = <<>>

\* EvalCmd from its start to the Share call of runCode, or to its end.
EvalCmd(i, ok) ==
    /\ ~crashed
    /\ invs[i].callback = "EvalCmd"
    /\ invs[i].pc = "start"
    /\ LET nick == invs[i].sourceNick
           builtUp == Code(Sprintf(FmtBuiltUp, <<invs[i].args>>), FALSE)
       IN  IF EvalCmdEmpty(invs[i].args)
           THEN Finish(i, <<replyFunc(nick, MsgEmptyCode, <<>>)>>, FALSE, invs[i].calls)
           ELSE LET p == runCodeProcess(builtUp, TRUE, TRUE, ImportsProcess(builtUp, ok))
                    r == EvalCmdResult(nick, [res |-> NoResponse, share |-> <<>>,
                                              err |-> p.err])
                IN  IF p.err # Nil
                    THEN Finish(i, r.out, r.panic, invs[i].calls \o p.calls)
                    ELSE Suspend(i, "share", p.code, <<>>,
                                 invs[i].calls \o p.calls
                                    \o <<Call("Share", <<>>, p.code, "pending")>>)

\* runCode, lines 278-286: Share returns and Compile is called.
Shared(i, shared) ==
    /\ ~crashed
    /\ invs[i].pc = "share"
    /\ Suspend(i, "compile", invs[i].code, runCodeShare(shared),
               Returned(invs[i].calls, Failed(shared.err))
                  \o <<Call("Compile", <<>>, invs[i].code, "pending")>>)

\* Compile returns, runCode returns and the handler runs to its end.
Compiled(i, compiled) ==
    /\ ~crashed
    /\ invs[i].pc = "compile"
    /\ LET r == runCodeCompile(compiled, invs[i].share)
           nick == invs[i].sourceNick
           h == CASE invs[i].callback = "EvalCmd" -> EvalCmdResult(nick, r)
                  [] invs[i].callback = "PlayRun" -> PlayRunResult(nick, r)
                  [] invs[i].callback = "PlayCmd" -> PlayCmdResult(nick, r)
       IN  FinishWith(i, h.out, h.panic,
                      Returned(invs[i].calls, Failed(compiled.err)), r.res)

\* PlayRun and PlayCmd from their start to the http.Get of downloadPlaySnippet,
\* or to their end.
PlayStart(i) ==
    /\ ~crashed
    /\ invs[i].pc = "start"
    /\ LET nick == invs[i].sourceNick
           e == extractPlaySnippetID(invs[i].args)
       IN  IF invs[i].args = <<>>
           THEN Finish(i, <<replyFunc(nick, MsgEmptyLink, <<>>)>>, FALSE, invs[i].calls)
           ELSE IF e.err # Nil
           THEN Finish(i, DownloadFailed(invs[i], e.err), FALSE, invs[i].calls)
           ELSE Suspend(i, "get", NoCode, <<>>,
                        invs[i].calls
                           \o <<Call("http.Get", SnippetURL(e.id), NoCode, "pending")>>)

PlayRun(i) ==
    /\ invs[i].callback = "PlayRun"
    /\ PlayStart(i)

PlayCmd(i) ==
    /\ invs[i].callback = "PlayCmd"
    /\ PlayStart(i)

\* http.Get returns: downloadPlaySnippet returns and, when it found the
\* snippet, runCode(code, false, false, false) calls Compile.
Downloaded(i, got) ==
    /\ ~crashed
    /\ invs[i].pc = "get"
    /\ LET d == downloadResult(got)
           p == runCodeProcess(Code(d.code, FALSE), FALSE, FALSE,
                               ImportsProcess(NoCode, TRUE))
       IN  IF d.err # Nil
           THEN Finish(i, DownloadFailed(invs[i], d.err), FALSE,
                       Returned(invs[i].calls, d.kind))
           ELSE Suspend(i, "compile", p.code, <<>>,
                        Returned(invs[i].calls, d.kind) \o p.calls
                           \o <<Call("Compile", <<>>, p.code, "pending")>>)

\* The orders in which a range over the map b.commands can yield its keys.
Orders(S) ==
    {f \in [1..Cardinality(S) -> S] : \A a, b \in 1..Cardinality(S) : f[a] = f[b] => a = b}

CommandOrders ==
    Orders(DOMAIN commands)

\* Mutant of HelpCmdResult: the argument is not trimmed.
HelpCmdResultUntrimmed(nick, args, order) ==
    IF args = <<>>
    THEN replyFunc(nick, FmtAvailable, <<CommandPrefix, Join(order, CommaSpace)>>)
    ELSE IF args \notin DOMAIN commands
    THEN replyFunc(nick, FmtUnknownCommand, <<args>>)
    ELSE replyFunc(nick, FmtHelpFor, <<commands[args].name, commands[args].help>>)

\* HelpCmd, lines 169-188; order is the iteration order of b.commands.
HelpCmdResult(nick, args, order) ==
    LET arg == TrimSpace(args)
    IN  IF arg = <<>>
        THEN replyFunc(nick, FmtAvailable, <<CommandPrefix, Join(order, CommaSpace)>>)
        ELSE IF arg \notin DOMAIN commands
        THEN replyFunc(nick, FmtUnknownCommand, <<arg>>)
        ELSE replyFunc(nick, FmtHelpFor, <<commands[arg].name, commands[arg].help>>)

HelpCmd(i, order) ==
    /\ ~crashed
    /\ invs[i].callback = "HelpCmd"
    /\ invs[i].pc = "start"
    /\ Finish(i, <<HelpCmdResult(invs[i].sourceNick, invs[i].args, order)>>, FALSE,
              invs[i].calls)

Next ==
    \/ \E msg \in Lines : onPrivmsg(msg)
    \/ \E i \in DOMAIN invs, ok \in BOOLEAN : EvalCmd(i, ok)
    \/ \E i \in DOMAIN invs, shared \in ShareResults : Shared(i, shared)
    \/ \E i \in DOMAIN invs, compiled \in CompileResults : Compiled(i, compiled)
    \/ \E i \in DOMAIN invs : PlayRun(i)
    \/ \E i \in DOMAIN invs : PlayCmd(i)
    \/ \E i \in DOMAIN invs, got \in GetResults : Downloaded(i, got)
    \/ \E i \in DOMAIN invs, order \in CommandOrders : HelpCmd(i, order)

Spec ==
    Init /\ [][Next]_vars

(***************************************************************************)
(* Specifications over parts of the traffic.  SpecEval delivers only eval  *)
(* lines, SpecDispatch a mix of lines that are and are not for the bot.    *)
(***************************************************************************)
EvalLines ==
    {Msg(ChanGo, UserAl, TxtEval),
     Msg(ChanGo, UserBo, TxtEvalBlank),
     Msg(CurrentNick, UserAl, TxtEvalNoArg)}

NextEval ==
    \/ \E msg \in EvalLines : onPrivmsg(msg)
    \/ \E i \in DOMAIN invs, ok \in BOOLEAN : EvalCmd(i, ok)
    \/ \E i \in DOMAIN invs, shared \in ShareResults : Shared(i, shared)
    \/ \E i \in DOMAIN invs, compiled \in CompileResults : Compiled(i, compiled)

SpecEval ==
    Init /\ [][NextEval]_vars

DispatchLines ==
    {Msg(ChanGo, UserAl, TxtEval),
     Msg(CurrentNick, UserBo, TxtPlayRun),
     Msg(CurrentNick, UserAl, TxtHelpEval),
     Msg(ChanGo, UserAl, TxtChatter),
     Msg(ChanGo, UserBo, TxtOtherBot)}

NextDispatch ==
    \/ \E msg \in DispatchLines : onPrivmsg(msg)
    \/ \E i \in DOMAIN invs, ok \in BOOLEAN : EvalCmd(i, ok)
    \/ \E i \in DOMAIN invs, shared \in ShareResults : Shared(i, shared)
    \/ \E i \in DOMAIN invs, compiled \in CompileResults : Compiled(i, compiled)
    \/ \E i \in DOMAIN invs : PlayRun(i)
    \/ \E i \in DOMAIN invs, got \in GetResults : Downloaded(i, got)
    \/ \E i \in DOMAIN invs, order \in CommandOrders : HelpCmd(i, order)

SpecDispatch ==
    Init /\ [][NextDispatch]_vars

(***************************************************************************)
(* SpecLocator: one playrun or play line whose argument is drawn from a    *)
(* set of references, right after onPrivmsg has dispatched it.             *)
(***************************************************************************)
References ==
    {lead \o id \o ext \o trail :
        lead \in {<<>>, SchemeHttp \o HostPathRe, SchemeHttps \o HostPathRe, HostPathRe,
                  LeadFtpHost, LeadOtherHost, LeadWildHost, LeadBang},
        id \in {RefShort, RefEight, RefNine, RefDashed},
        ext \in {<<>>, GoSuffix, ExtPy, ExtGoGo},
        trail \in {<<>>, TrailBang, TrailPath}}

LocatorLines ==
    {Msg(ChanGo, UserAl, CommandPrefix \o name \o <<" ">> \o ref) :
        name \in {NamePlayRun, NamePlay}, ref \in References}

InitLocator ==
    \E msg \in LocatorLines :
        LET parsed == ParseCommand(msg.text)
        IN  /\ nlines = 1
            /\ lastMsg = msg
            /\ invs = <<Invocation(commands[parsed.command], parsed.rest, msg)>>
            /\ replies = <<>>
            /\ busy = 0
            /\ crashed = FALSE

NextLocator ==
    \/ \E i \in DOMAIN invs : PlayRun(i)
    \/ \E i \in DOMAIN invs : PlayCmd(i)
    \/ \E i \in DOMAIN invs, got \in GetResults : Downloaded(i, got)
    \/ \E i \in DOMAIN invs, compiled \in CompileResults : Compiled(i, compiled)

SpecLocator ==
    InitLocator /\ [][NextLocator]_vars

(***************************************************************************)
(* The last line of a run, drawn from the shapes a line can have, with     *)
(* every outcome of the remote calls and a wider set of compile responses. *)
(***************************************************************************)
ParseNames ==
    {NameEval, NamePlayRun, NamePlay, NameHelp,
     NameEvalCap, NameHelpUpper, NameNope, NameEvaluate, <<>>}

ParseArgs ==
    {NameEval, ArgWord, ArgSpaced, ArgLeadSpace, ArgBlank, ArgPaddedName, <<>>}

\* The two addressed forms with single spaces.
PrefixForm(name, arg) ==
    CommandPrefix \o name \o SepSpace \o arg

PrefixFormBare(name) ==
    CommandPrefix \o name

MentionForm(name, arg) ==
    CurrentNick \o SepSpace \o name \o SepSpace \o arg

MentionFormBare(name) ==
    CurrentNick \o SepSpace \o name

\* The same with another separator between the tokens.
WideNames ==
    {NameEval, NamePlayRun, NameHelp}

WideArgs ==
    {NameEval, ArgWord}

WideSeps ==
    {SepTwoSpaces, SepTab}

PrefixFormSep(sep, name, arg) ==
    CommandPrefix \o name \o sep \o arg

MentionFormSep(sep, name, arg) ==
    CurrentNick \o sep \o name \o sep \o arg

\* The nick with something other than whitespace right after it.
NickTails ==
    {TailColon, TailLetter, TailComma}

GluedForm(tail, name, arg) ==
    CurrentNick \o tail \o SepSpace \o name \o SepSpace \o arg

LineTexts ==
    {PrefixForm(n, a) : n \in ParseNames, a \in ParseArgs}
        \cup {PrefixFormBare(n) : n \in ParseNames}
        \cup {MentionForm(n, a) : n \in ParseNames, a \in ParseArgs}
        \cup {MentionFormBare(n) : n \in ParseNames}
        \cup {PrefixFormSep(sep, n, a) : sep \in WideSeps, n \in WideNames, a \in WideArgs}
        \cup {MentionFormSep(sep, n, a) : sep \in WideSeps, n \in WideNames, a \in WideArgs}
        \cup {GluedForm(t, n, a) : t \in NickTails, n \in WideNames, a \in WideArgs}
        \cup {CurrentNick \o t : t \in NickTails}
        \cup {CurrentNick, TxtChatter, TxtOtherBot}

LastLines ==
    {Msg(ChanGo, UserAl, text) : text \in LineTexts}

RenderResults ==
    CompileResults \cup
    {[res |-> Response(DiagTwoLines, <<>>), err |-> Nil],
     [res |-> Response(<<>>, <<EventBell>>), err |-> Nil],
     [res |-> Response(<<>>, <<EventBellOnly, EventE2>>), err |-> Nil],
     [res |-> Response(<<>>, <<EventEscape>>), err |-> Nil],
     [res |-> Response(<<>>, <<EventTab>>), err |-> Nil],
     [res |-> Response(<<>>, <<EventPadded, EventE2>>), err |-> Nil],
     [res |-> Response(<<>>, <<EventCR>>), err |-> Nil],
     [res |-> Response(<<>>, <<<<>>>>), err |-> Nil]}

\* All lines of the run but one were read and were not addressed to the bot.
InitLastLine ==
    /\ nlines = MaxLines - 1
    /\ lastMsg = Msg(ChanGo, UserAl, TxtChatter)
    /\ invs = <<>>
    /\ replies = <<>>
    /\ busy = 0
    /\ crashed = FALSE

NextLastLine ==
    \/ \E msg \in LastLines : onPrivmsg(msg)
    \/ \E i \in DOMAIN invs, ok \in BOOLEAN : EvalCmd(i, ok)
    \/ \E i \in DOMAIN invs, shared \in ShareResults : Shared(i, shared)
    \/ \E i \in DOMAIN invs, compiled \in RenderResults : Compiled(i, compiled)
    \/ \E i \in DOMAIN invs : PlayRun(i)
    \/ \E i \in DOMAIN invs : PlayCmd(i)
    \/ \E i \in DOMAIN invs, got \in GetResults : Downloaded(i, got)
    \/ \E i \in DOMAIN invs, order \in CommandOrders : HelpCmd(i, order)

SpecLastLine ==
    InitLastLine /\ [][NextLastLine]_vars

(***************************************************************************)
(* Properties.                                                             *)
(***************************************************************************)
\* The texts sent for invocation i, in order.
RepliesOf(i) ==
    LET mine == SelectSeq(replies, LAMBDA r : r.inv = i)
    IN  [k \in 1..Len(mine) |-> mine[k].text]

\* The calls invocation i has made to fn, in order.
CallsTo(i, fn) ==
    SelectSeq(invs[i].calls, LAMBDA c : c.fn = fn)

Ended(i) ==
    invs[i].pc \in {"done", "panicked"}

IsPlay(i) ==
    invs[i].callback \in {"PlayRun", "PlayCmd"}

\* C1: every handler run that has ended (by returning or by panicking) has
\* called the reply function exactly once.
C1_ExactlyOneReply ==
    \A i \in DOMAIN invs : Ended(i) => Len(RepliesOf(i)) = 1

\* C2: no handler run ends in a panic: after a failed format step or a failed
\* execution submission the handler replies and returns, and the process
\* lives on.
C2_NoHandlerPanics ==
    \A i \in DOMAIN invs : invs[i].pc # "panicked"

\* C3: an invocation suspended in a remote call is never the one the
\* dispatcher is waiting for: the dispatcher only ever waits for an inline
\* callback, and no inline callback is inside a remote call.
C3_DispatcherNotBlocked ==
    \A i \in DOMAIN invs :
        InRemoteCall(invs[i].pc) => (busy # i /\ ~invs[i].inline)

\* A line was dispatched and answered by help while an earlier invocation
\* was, and still is, suspended in a remote call.
C3_Witness ==
    \E i, j \in DOMAIN invs :
        /\ i < j
        /\ InRemoteCall(invs[i].pc)
        /\ invs[j].callback = "HelpCmd"
        /\ invs[j].pc = "done"
        /\ Len(RepliesOf(j)) = 1
        /\ busy = 0

\* The replies eval can make for a response of the execution service when the
\* share link handed to it is share.
EvalRenderings(nick, share) ==
    {EvalCmdResult(nick, [res |-> c.res, share |-> share, err |-> Nil]).out :
        c \in {d \in CompileResults : d.err = Nil}}

\* C4: when Share failed in an eval, Compile is still called, with the source
\* Share was called with; the share value is the placeholder; and a handler
\* that has returned has sent exactly the rendering of the response with the
\* placeholder as share link.
C4_ShareFailureIsNotFatal ==
    \A i \in DOMAIN invs :
        (/\ invs[i].callback = "EvalCmd"
         /\ \E k \in 1..Len(invs[i].calls) :
               invs[i].calls[k].fn = "Share" /\ invs[i].calls[k].ret = "err")
        => /\ Len(CallsTo(i, "Share")) = 1
           /\ Len(CallsTo(i, "Compile")) = 1
           /\ CallsTo(i, "Compile")[1].code = CallsTo(i, "Share")[1].code
           /\ CallsTo(i, "Compile")[1].code.processed
           /\ invs[i].share = MsgNoShareLink
           /\ invs[i].pc = "done" =>
                 RepliesOf(i) \in EvalRenderings(invs[i].sourceNick, MsgNoShareLink)

\* An eval whose Share failed has replied with a run result that carries the
\* placeholder.
C4_Witness ==
    \E i \in DOMAIN invs :
        /\ invs[i].callback = "EvalCmd"
        /\ Len(CallsTo(i, "Share")) = 1
        /\ CallsTo(i, "Share")[1].ret = "err"
        /\ invs[i].pc = "done"
        /\ RepliesOf(i) = <<replyFunc(invs[i].sourceNick, FmtEvalResult,
                                       <<MsgNoShareLink, <<>>, ExtractFirstLine(EventHi)>>)>>

\* C5: an eval whose imports.Process call failed calls neither Share nor
\* Compile.
C5_NoCallsAfterFormatError ==
    \A i \in DOMAIN invs :
        (/\ invs[i].callback = "EvalCmd"
         /\ Len(CallsTo(i, "imports.Process")) > 0
         /\ CallsTo(i, "imports.Process")[1].ret = "err")
        => /\ Len(CallsTo(i, "Share")) = 0
           /\ Len(CallsTo(i, "Compile")) = 0
           /\ ~InRemoteCall(invs[i].pc)

C5_Witness ==
    \E i \in DOMAIN invs :
        /\ invs[i].callback = "EvalCmd"
        /\ Len(CallsTo(i, "imports.Process")) = 1
        /\ CallsTo(i, "imports.Process")[1].ret = "err"
        /\ ~Running(invs[i].pc)

\* s is empty or holds whitespace only.
IsBlank(s) ==
    \A k \in 1..Len(s) : IsSpace(s[k])

\* C6: an eval with a blank argument makes no call at all and, once it has
\* run, has returned after the single reply "Cannot eval empty code".
C6_BlankEvalRejected ==
    \A i \in DOMAIN invs :
        (invs[i].callback = "EvalCmd" /\ IsBlank(invs[i].args))
        => /\ invs[i].calls = <<>>
           /\ invs[i].pc \in {"start", "done", "killed"}
           /\ RepliesOf(i) = IF invs[i].pc = "done" THEN <<MsgEmptyCode>> ELSE <<>>

\* Both an empty and a whitespace-only argument have been rejected.
C6_Witness ==
    \E i, j \in DOMAIN invs :
        /\ invs[i].callback = "EvalCmd" /\ invs[i].args = <<>> /\ invs[i].pc = "done"
        /\ invs[j].callback = "EvalCmd" /\ invs[j].args # <<>> /\ IsBlank(invs[j].args)
        /\ invs[j].pc = "done"

\* ref is scheme://play.golang.org/p/<id>[.go] with scheme http or https.
IsSharingURL(ref) ==
    \E scheme \in {SchemeHttp, SchemeHttps} :
        /\ HasPrefix(ref, scheme \o HostPathRe)
        /\ IsSnippetID(Drop(ref, Len(scheme \o HostPathRe)))

Recognized(ref) ==
    IsSharingURL(ref) \/ IsSnippetID(ref)

\* The <id> of a recognized reference, without its extension.
StripGo(s) ==
    IF HasSuffix(s, GoSuffix) THEN SubSeq(s, 1, Len(s) - Len(GoSuffix)) ELSE s

ReferenceID(ref) ==
    IF IsSnippetID(ref) THEN StripGo(ref)
    ELSE StripGo(Drop(ref, Index(ref, ":") + 2 + Len(HostPathRe)))

\* C7: a playrun or play whose argument is neither a sharing URL nor, as a
\* whole, a bare identifier makes no http.Get call.
C7_UnrecognizedReferenceNoFetch ==
    \A i \in DOMAIN invs :
        (IsPlay(i) /\ invs[i].args # <<>> /\ ~Recognized(invs[i].args))
        => Len(CallsTo(i, "http.Get")) = 0

\* C8: a playrun or play with a recognized reference makes, once it has
\* started, exactly one http.Get call, for https://play.golang.org/p/<id>.go.
C8_OneFetchWithGoSuffix ==
    \A i \in DOMAIN invs :
        (IsPlay(i) /\ Recognized(invs[i].args) /\ invs[i].pc \notin {"start", "killed"})
        => /\ Len(CallsTo(i, "http.Get")) = 1
           /\ CallsTo(i, "http.Get")[1].url
                 = PlayBaseURL \o <<"/", "p", "/">> \o ReferenceID(invs[i].args) \o GoSuffix

\* A sharing URL that already ends in .go has been fetched.
C8_Witness ==
    \E i \in DOMAIN invs :
        /\ IsPlay(i)
        /\ IsSharingURL(invs[i].args)
        /\ HasSuffix(invs[i].args, GoSuffix)
        /\ Len(CallsTo(i, "http.Get")) = 1
        /\ CallsTo(i, "http.Get")[1].ret = "ok"

\* The kind of the snippet-resolution failure of a playrun or play that has
\* returned, "none" if it had none.
ResolutionFailure(i) ==
    IF ~IsPlay(i) \/ invs[i].pc # "done" \/ invs[i].args = <<>> THEN "none"
    ELSE IF Len(CallsTo(i, "http.Get")) = 0 THEN "unresolvable"
    ELSE CASE CallsTo(i, "http.Get")[1].ret = "notfound" -> "notfound"
           [] CallsTo(i, "http.Get")[1].ret \in {"network", "status", "read"} -> "fetch"
           [] OTHER -> "none"

\* C9: a playrun or play that ended on a snippet-resolution failure has
\* replied exactly once and has not called Compile, and the replies to one
\* user for failures of different kinds differ.
C9_ResolutionFailureReported ==
    /\ \A i \in DOMAIN invs :
          ResolutionFailure(i) # "none"
          => Len(RepliesOf(i)) = 1 /\ Len(CallsTo(i, "Compile")) = 0
    /\ \A i, j \in DOMAIN invs :
          (/\ ResolutionFailure(i) # "none"
           /\ ResolutionFailure(j) # "none"
           /\ ResolutionFailure(i) # ResolutionFailure(j)
           /\ invs[i].callback = invs[j].callback
           /\ invs[i].sourceNick = invs[j].sourceNick)
          => RepliesOf(i) # RepliesOf(j)

\* C10: delivering a line that starts with neither the command prefix nor the
\* nick changes nothing but the dispatcher's position in its input: no
\* invocation is created, no reply is sent, the dispatcher neither blocks
\* nor crashes.
C10_UnaddressedLineHasNoEffect ==
    [][(/\ nlines' = nlines + 1
        /\ ~HasPrefix(lastMsg'.text, CommandPrefix)
        /\ ~HasPrefix(lastMsg'.text, CurrentNick))
       => UNCHANGED <<invs, replies, busy, crashed>>]_vars

\* A line for another bot was delivered while an invocation was running.
C10_Witness ==
    /\ nlines = 2
    /\ lastMsg.text = TxtOtherBot
    /\ Len(invs) = 1
    /\ Running(invs[1].pc)

(***************************************************************************)
(* The dispatcher's forms of address.                                      *)
(***************************************************************************)
\* The dispatcher has just read a line with this text.
Read(text) ==
    /\ nlines' = nlines + 1
    /\ lastMsg'.text = text

\* The text starts with the nick, and the nick is the whole text or is
\* followed by something other than whitespace.
NickNotSetOff(text) ==
    /\ HasPrefix(text, CurrentNick)
    /\ \/ Len(text) = Len(CurrentNick)
       \/ ~IsSpace(text[Len(CurrentNick) + 1])

\* C11: a line that does not start with the command prefix and in which the
\* nick is the whole line, or is followed directly by a character that is not
\* whitespace, is not addressed: reading it starts no handler, sends no reply
\* and leaves the dispatcher running.
C11_GluedNickNotAddressed ==
    [][\A text \in LineTexts :
          (Read(text) /\ ~HasPrefix(text, CommandPrefix) /\ NickNotSetOff(text))
              => UNCHANGED <<invs, replies, busy, crashed>>]_vars

\* The registered command names and the handler of each.
HandlerOf ==
    (NameEval :> "EvalCmd") @@ (NamePlayRun :> "PlayRun")
        @@ (NamePlay :> "PlayCmd") @@ (NameHelp :> "HelpCmd")

\* Reading the line resolved it to command name and argument arg: the parser
\* gives that pair, and when name is registered the invocation started has
\* name's handler and arg as its argument.
ResolvedTo(text, name, arg) ==
    /\ ParseCommand(text) = [panic |-> FALSE, command |-> name, rest |-> arg]
    /\ IF name \in DOMAIN HandlerOf
       THEN /\ Len(invs') = Len(invs) + 1
            /\ invs'[Len(invs')].callback = HandlerOf[name]
            /\ invs'[Len(invs')].args = arg
            /\ invs'[Len(invs')].pc = "start"
       ELSE invs' = invs

\* C12: for every command name N without whitespace and every argument text
\* A, the lines prefix+N+" "+A and nick+" "+N+" "+A resolve to command N with
\* argument A, and the lines prefix+N and nick+" "+N resolve to command N
\* with the empty argument.
C12_AddressedFormsResolve ==
    [][\A n \in ParseNames :
          /\ \A a \in ParseArgs :
                /\ Read(PrefixForm(n, a)) => ResolvedTo(PrefixForm(n, a), n, a)
                /\ Read(MentionForm(n, a)) => ResolvedTo(MentionForm(n, a), n, a)
          /\ Read(PrefixFormBare(n)) => ResolvedTo(PrefixFormBare(n), n, <<>>)
          /\ Read(MentionFormBare(n)) => ResolvedTo(MentionFormBare(n), n, <<>>)]_vars

\* A mention line whose argument holds spaces was resolved, and its handler
\* has answered.
C12_Witness ==
    /\ lastMsg.text = MentionForm(NameEval, ArgSpaced)
    /\ \E i \in DOMAIN invs :
          /\ invs[i].callback = "EvalCmd"
          /\ invs[i].args = ArgSpaced
          /\ invs[i].pc = "done"
          /\ RepliesOf(i) # <<>>

\* C13: the tokens of an addressed line are separated by runs of whitespace: a
\* line with several spaces or a tab between its tokens resolves to the same
\* command name and argument as the line with single spaces.
C13_WhitespaceRunsSeparate ==
    [][\A sep \in WideSeps, n \in WideNames, a \in WideArgs :
          /\ Read(PrefixFormSep(sep, n, a))
                => ResolvedTo(PrefixFormSep(sep, n, a), n, a)
          /\ Read(MentionFormSep(sep, n, a))
                => ResolvedTo(MentionFormSep(sep, n, a), n, a)]_vars

\* The line is addressed to the bot and has a parsed command name.
HasCommandName(text) ==
    /\ HasPrefix(text, CommandPrefix) \/ HasPrefix(text, CurrentNick)
    /\ ~ParseCommand(text).panic

\* C14: the parsed command name is looked up by exact, case-sensitive match.
\* When it matches no registered command, no handler is invoked and no reply
\* is sent; otherwise exactly one invocation, of that command's handler, is
\* started for the line.
C14_ExactNameLookup ==
    [][\A text \in LineTexts :
          (Read(text) /\ HasCommandName(text)) =>
              LET name == ParseCommand(text).command
              IN  IF name \in DOMAIN HandlerOf
                  THEN /\ Len(invs') = Len(invs) + 1
                       /\ SubSeq(invs', 1, Len(invs)) = invs
                       /\ invs'[Len(invs')].callback = HandlerOf[name]
                       /\ invs'[Len(invs')].msg = lastMsg'
                       /\ replies' = replies
                  ELSE UNCHANGED <<invs, replies, busy, crashed>>]_vars

\* A line whose command name differs from a registered one only in letter
\* case was read, and nothing was started or sent.
C14_Witness ==
    /\ lastMsg.text = PrefixForm(NameEvalCap, ArgWord)
    /\ nlines = MaxLines
    /\ invs = <<>>
    /\ replies = <<>>
    /\ ~crashed

(***************************************************************************)
(* Replies of concurrent invocations.                                      *)
(***************************************************************************)
\* The nick of a sender prefix nick!user@host.
NickOf(prefix) ==
    LET bang == CHOOSE k \in 1..Len(prefix) :
                    prefix[k] = "!" /\ \A j \in 1..(k - 1) : prefix[j] # "!"
    IN  SubSeq(prefix, 1, bang - 1)

\* The reply target of a line: the sender's nick for a private message, the
\* channel otherwise.
TargetOf(m) ==
    IF m.target = CurrentNick THEN NickOf(m.prefix) ELSE m.target

\* C15: every reply made by a handler invocation is sent to the reply target
\* of the line that invocation was started for, whatever other invocations
\* with other targets run at the same time.
C15_ReplyGoesToOwnTarget ==
    \A k \in DOMAIN replies :
        replies[k].target = TargetOf(invs[replies[k].inv].msg)

\* Two invocations with different reply targets ran at the same time, and the
\* one started first replied after the other.
C15_Witness ==
    \E j, k \in DOMAIN replies :
        /\ j < k
        /\ replies[j].inv > replies[k].inv
        /\ replies[j].target # replies[k].target
        /\ ~invs[replies[j].inv].inline
        /\ ~invs[replies[k].inv].inline

(***************************************************************************)
(* Rendering of execution results.                                         *)
(***************************************************************************)
\* Invocation i of eval, playrun or play has ended after runCode handed it a
\* response of the execution service.
Rendered(i) ==
    /\ invs[i].callback \in {"EvalCmd", "PlayRun", "PlayCmd"}
    /\ invs[i].pc = "done"
    /\ ~invs[i].res.isNil

\* The response is a run, not a compile failure.
IsRun(res) ==
    ~res.isNil /\ Len(res.Errors) = 0

\* The transforms of an event message in the stated order: cut at the first
\* line break, trim, strip the bell, then suppress if something non-printable
\* is left.
StatedFirstLine(s) ==
    LET breaks == {k \in 1..Len(s) : s[k] = "\n"}
        cut == IF breaks = {} THEN s
               ELSE SubSeq(s, 1, (CHOOSE k \in breaks : \A j \in breaks : k <= j) - 1)
        stripped == SelectSeq(TrimSpace(cut), LAMBDA c : c # "BEL")
    IN  IF \E k \in 1..Len(stripped) : ~IsPrint(stripped[k])
        THEN MsgSuppressed
        ELSE stripped

\* C16: for a run result with at least one event, the event text rendered in
\* the reply of eval and playrun is the first event's message cut at the first
\* line break, then trimmed, then stripped of every bell character, and
\* replaced by the suppression message exactly when a character left after
\* the stripping is non-printable.
C16_FirstLineTransforms ==
    \A i \in DOMAIN invs :
        (/\ Rendered(i)
         /\ invs[i].callback \in {"EvalCmd", "PlayRun"}
         /\ IsRun(invs[i].res)
         /\ Len(invs[i].res.Events) >= 1)
            => /\ Len(RepliesOf(i)) = 1
               /\ HasSuffix(RepliesOf(i)[1],
                            <<":", " ">> \o StatedFirstLine(invs[i].res.Events[1]))

\* Invocation i of eval has rendered a run with at least one event.
EvalRun(i) ==
    /\ Rendered(i)
    /\ invs[i].callback = "EvalCmd"
    /\ IsRun(invs[i].res)
    /\ Len(invs[i].res.Events) >= 1

\* The note on a run of n events.
NoteOf(n) ==
    Sprintf(FmtFirstLineOnly, <<Itoa(n)>>)

\* The share-link prefix of invocation i: its link, or the placeholder.
SharePrefix(i) ==
    LET made == SelectSeq(invs[i].calls, LAMBDA c : c.fn = "Share" /\ c.ret = "ok")
    IN  IF made = <<>> THEN MsgNoShareLink ELSE ShareURL

\* C17 as stated: for an eval run of N > 1 events the reply is the first line
\* of the first event with the note " (First line only. N events returned)"
\* appended after it, the whole preceded by the share-link prefix; with
\* exactly one event there is no note.
C17_NoteAfterText ==
    \A i \in DOMAIN invs :
        EvalRun(i) =>
            LET n == Len(invs[i].res.Events)
                line == ExtractFirstLine(invs[i].res.Events[1])
                text == RepliesOf(i)[1]
            IN  /\ Len(RepliesOf(i)) = 1
                /\ \E k \in 1..Len(text) :
                      HasPrefix(Drop(text, k - 1), SharePrefix(i))
                /\ IF n > 1
                   THEN HasSuffix(text, line \o NoteOf(n))
                   ELSE HasSuffix(text, line)

\* C17: for an eval run of N > 1 events the reply is "(" sender nick ") ",
\* the share-link prefix, the note " (First line only. N events returned)",
\* " : " and the first line of the first event, in this order; with exactly
\* one event it is the same without the note.
C17_NoteBeforeText ==
    \A i \in DOMAIN invs :
        EvalRun(i) =>
            LET n == Len(invs[i].res.Events)
                line == ExtractFirstLine(invs[i].res.Events[1])
                note == IF n > 1 THEN NoteOf(n) ELSE <<>>
            IN  RepliesOf(i) =
                    << <<"(">> \o NickOf(invs[i].msg.prefix) \o <<")", " ">>
                           \o SharePrefix(i) \o note \o <<" ", ":", " ">> \o line >>

\* An eval run of three events was rendered, with the first event of two lines.
C17_Witness ==
    \E i \in DOMAIN invs :
        /\ EvalRun(i)
        /\ invs[i].res.Events = <<EventLine1, EventE2, EventE3>>
        /\ Len(RepliesOf(i)) = 1

\* C18: every eval reply that renders a response of the execution service (a
\* compile failure, a run with no events, a run with events) starts with the
\* share link when one was obtained and with the placeholder "Unable to create
\* share link" when not, after the sender's nick if the reply names it; the
\* prefix is never left out.
C18_SharePrefixAlways ==
    \A i \in DOMAIN invs :
        (Rendered(i) /\ invs[i].callback = "EvalCmd") =>
            /\ Len(RepliesOf(i)) = 1
            /\ \/ HasPrefix(RepliesOf(i)[1], SharePrefix(i))
               \/ HasPrefix(RepliesOf(i)[1],
                            <<"(">> \o NickOf(invs[i].msg.prefix) \o <<")", " ">>
                                \o SharePrefix(i))

\* C19: for every execution result, each text that eval, playrun or play
\* passes to the reply function is one line: it holds no line-break character,
\* for a compile failure, whose diagnostic may span several lines, as for a
\* run without events and a run with events.
C19_ReplyIsOneLine ==
    \A i \in DOMAIN invs :
        Rendered(i) =>
            \A k \in DOMAIN RepliesOf(i) :
                \A j \in DOMAIN RepliesOf(i)[k] :
                    RepliesOf(i)[k][j] \notin {"\n", "\r"}

(***************************************************************************)
(* The registry.                                                           *)
(***************************************************************************)
\* Invocation i has issued a call to the playground or to the snippet host.
IssuedRemoteCall(i) ==
    \E k \in DOMAIN invs[i].calls :
        invs[i].calls[k].fn \in {"Share", "Compile", "http.Get"}

\* C20: the registry holds exactly the four commands eval, playrun, play and
\* help, from before the first line is read and in every later state; eval,
\* playrun and play, whose handlers can issue a remote call, are declared
\* concurrent and their invocations run concurrently; help is the only
\* sequential command and its invocations issue no remote call.
C20_RegistryOfFour ==
    /\ DOMAIN commands = {NameEval, NamePlayRun, NamePlay, NameHelp}
    /\ \A n \in DOMAIN commands :
          /\ commands[n].callback = HandlerOf[n]
          /\ commands[n].goroutine = (n # NameHelp)
    /\ \A i \in DOMAIN invs :
          /\ invs[i].callback \in {"EvalCmd", "PlayRun", "PlayCmd", "HelpCmd"}
          /\ invs[i].inline = (invs[i].callback = "HelpCmd")
          /\ IssuedRemoteCall(i) => ~invs[i].inline
          /\ invs[i].callback = "HelpCmd"
                => invs[i].calls = <<>> /\ ~InRemoteCall(invs[i].pc)

\* A play invocation, started concurrently, has finished after a download and
\* a compile call.
C20_Witness ==
    \E i \in DOMAIN invs :
        /\ invs[i].callback = "PlayCmd"
        /\ ~invs[i].inline
        /\ invs[i].pc = "done"
        /\ CallsTo(i, "http.Get") # <<>>
        /\ CallsTo(i, "Compile") # <<>>

(***************************************************************************)
(* The help command.                                                       *)
(***************************************************************************)
\* The help text of each registered command.
HelpOf ==
    (NameEval :> HelpEval) @@ (NamePlayRun :> HelpPlayRun)
        @@ (NamePlay :> HelpPlay) @@ (NameHelp :> HelpHelp)

\* The listings that name every registered command exactly once.
Listings ==
    {Join(o, <<",", " ">>) : o \in Orders(DOMAIN HelpOf)}

\* "(" nick ") ", put before every reply that is made with operands.
NickLabel(i) ==
    <<"(">> \o NickOf(invs[i].msg.prefix) \o <<")", " ">>

\* C21: the help command replies exactly once for every argument text.  With
\* an empty or whitespace-only argument the reply lists the name of every
\* registered command, each exactly once; with an argument that is, after
\* trimming, a registered name the reply carries that name and its help text;
\* with any other argument the reply is the unknown-command message naming
\* the trimmed argument.
C21_HelpRepliesOnce ==
    \A i \in DOMAIN invs :
        (invs[i].callback = "HelpCmd" /\ invs[i].pc = "done") =>
            LET arg == TrimSpace(invs[i].args)
                said == RepliesOf(i)
            IN  /\ Len(said) = 1
                /\ IF arg = <<>>
                   THEN \E list \in Listings :
                           said[1] = NickLabel(i)
                               \o Sprintf(FmtAvailable, <<CommandPrefix, list>>)
                   ELSE IF arg \in DOMAIN HelpOf
                   THEN said[1] = NickLabel(i)
                           \o <<"H","e","l","p"," ","f","o","r"," ","\"">> \o arg
                           \o <<"\"", ":", " ">> \o HelpOf[arg]
                   ELSE said[1] = NickLabel(i)
                           \o <<"U","n","k","n","o","w","n"," ","c","o","m","m","a","n","d",
                                " ","\"">> \o arg \o <<"\"">>

\* Help was asked with a whitespace-only argument and has answered with a
\* listing.
C21_Witness ==
    \E i \in DOMAIN invs :
        /\ invs[i].callback = "HelpCmd"
        /\ invs[i].pc = "done"
        /\ invs[i].args = ArgBlank
        /\ Len(RepliesOf(i)) = 1

=============================================================================
